---- MODULE Spec2Model ----
(***************************************************************************)
(* Usage tracking hooks: the event ingestor and session correlator of      *)
(* scripts/usage-tracker.py.  Every hook firing is one short-lived process *)
(* that opens its own SQLite connections on the shared database file; the  *)
(* model runs several such invocations concurrently against one committed  *)
(* store, one pending transaction per connection and SQLite's single       *)
(* writer lock.                                                            *)
(*                                                                         *)
(* Time is counted in milliseconds since midnight of the current day.      *)
(* The columns timestamp and project_path of the append-only tables and    *)
(* project_path / transcript_path of sessions are not read by any property *)
(* below and are left out of the rows.                                     *)
(***************************************************************************)
EXTENDS Integers, Sequences, FiniteSets, TLC

\* ------------------------------------------------------------------ bounds
MaxInvocations == 3     \* hook firings in one behaviour
MaxTicks == 1           \* clock advances in one behaviour
LiveInvocations == 2    \* hook firings in one behaviour of LiveSpec

\* ------------------------------------------------------------- processes
Procs == {"p1", "p2"}
NoProc == "none"

\* a key that is missing from a JSON object; a NULL in an integer column
\* (no time, duration or exit status is negative)
Absent == "<absent>"
NULL == -1

\* ------------------------------------------------------------------ clock
StartClocks == {4000}               \* 00:00:04.000
TickSteps == {999, 125000}          \* the clock jumps by one of these

\* ----------------------------------------------------------------- inputs
\* values of the environment variable CLAUDE_HOOK_TYPE ("" = not set)
Hints == {"", "PreToolUse", "PostToolUse", "Stop", "SubagentStop", "Notification"}

\* a JSON object on stdin with the keys it holds
Payload(sid, tn, ti, tr) ==
    [json |-> TRUE, session_id |-> sid, tool_name |-> tn, tool_input |-> ti,
     tool_response |-> tr]

\* input that json.load rejects
Unparseable ==
    [json |-> FALSE, session_id |-> Absent, tool_name |-> Absent,
     tool_input |-> Absent, tool_response |-> Absent]

\* JSON objects are carried as their json.dumps text
EmptyObj == "{}"
LsInput == "{\"command\": \"ls\"}"

BareS1 == Payload("s1", Absent, Absent, Absent)
BareS2 == Payload("s2", Absent, Absent, Absent)
NoSession == Payload(Absent, Absent, Absent, Absent)
AnonCall == Payload(Absent, "Read", EmptyObj, Absent)
ReadCall == Payload("s1", "Read", EmptyObj, Absent)
BashResult == Payload("s1", "Bash", LsInput, EmptyObj)
BashNoInput == Payload("s1", "Bash", Absent, Absent)

\* the hook firings of the host: the environment value and what arrives on
\* stdin.  Every hint with a payload of no recognized shape, the recognized
\* shapes without and against a hint, payloads without a session id, a
\* session that was never opened, and input that is not JSON.
Firings ==
    {<<h, BareS1>> : h \in Hints}
    \cup {<<"", ReadCall>>, <<"Stop", ReadCall>>,
          <<"", BashResult>>,
          <<"PreToolUse", BashNoInput>>,
          <<"", NoSession>>, <<"PreToolUse", AnonCall>>, <<"Stop", NoSession>>,
          <<"Notification", NoSession>>,
          <<"Stop", BareS2>>,
          <<"", Unparseable>>}

HasKey(data, key) == data[key] # Absent

\* dict.get(key, default) on a parsed payload
Get(data, key, default) == IF HasKey(data, key) THEN data[key] ELSE default

\* tool_input.get(key, '') on the tool-input objects of Payloads
ToolInputGet(obj, key) == IF obj = LsInput /\ key = "command" THEN "ls" ELSE ""

\* ------------------------------------------------------- tool classifier
ToolCategories ==
    [Read |-> "file_ops", Write |-> "file_ops", Edit |-> "file_ops",
     MultiEdit |-> "file_ops", NotebookRead |-> "file_ops",
     NotebookEdit |-> "file_ops", Bash |-> "shell", Task |-> "agent",
     Glob |-> "search", Grep |-> "search", LS |-> "search",
     WebFetch |-> "web", WebSearch |-> "web", TodoRead |-> "planning",
     TodoWrite |-> "planning", exit_plan_mode |-> "planning"]

StartsWith(str, prefix) ==
    /\ Len(str) >= Len(prefix)
    /\ SubSeq(str, 1, Len(prefix)) = prefix

\* (mutation) the table is consulted alone
categorize_by_table(name) ==
    IF name \in DOMAIN ToolCategories THEN ToolCategories[name]
    ELSE "other"

categorize_tool(name) ==
    IF StartsWith(name, "mcp__") THEN "mcp"
    ELSE IF name \in DOMAIN ToolCategories THEN ToolCategories[name]
    ELSE "other"

\* ------------------------------------------------ SQLite date arithmetic
\* julianday(t) is the IEEE double nearest to iJD / 86400000.0, iJD the
\* time in whole milliseconds.  A Julian day number of this era lies in
\* [2^21, 2^22), where doubles are 2^-31 days apart, and midnight is a
\* multiple of 84375 ms = 2^-10 days, so with t in ms since midnight
\*     julianday(t) = JD(midnight) + JulianUlps(t) * 2^-31
\* and JulianUlps(t) is t * 2^21 / 84375 rounded to the nearest integer
\* (no ties: 84375 is odd).  The products are split to stay within 32 bits.
RoundDiv(a, b) == (2 * a + b) \div (2 * b)

JulianUlps(t) ==
    LET q  == t \div 84375
        r  == t % 84375
        q1 == (r * 2048) \div 84375
        r1 == (r * 2048) % 84375
    IN  q * 2097152 + q1 * 1024 + RoundDiv(r1 * 1024, 84375)

\* CAST((julianday(now) - julianday(start_time)) * 86400 AS INTEGER):
\* the difference k * 2^-31 and its product with 86400 are exact in
\* double arithmetic, the cast truncates k * 675 / 2^24.
DurationSeconds(now_, start_time) ==
    LET k  == JulianUlps(now_) - JulianUlps(start_time)
        kq == k \div 16777216
        kr == k % 16777216
        a  == kr \div 4096
        b  == kr % 4096
    IN  kq * 675 + (a * 675 + (b * 675) \div 4096) \div 4096

\* ------------------------------------------------------------------ state
VARIABLES
    db,             \* the committed content of usage-tracking.db
    schema,         \* the four tables exist
    lock,           \* the connection holding SQLite's writer lock
    conn,           \* per process: the pending transaction of its connection
    log_file,       \* today's usage-logs/<date>.jsonl
    pc,             \* per process: position in main()
    env,            \* per process: CLAUDE_HOOK_TYPE
    stdin,          \* per process: the input on stdin / input_data once loaded
    hook_type,      \* per process: local hook_type of main()
    frame,          \* per process: the locals of log_session_event
    err,            \* per process: the exception caught by main(), "" if none
    exit_status,    \* per process: status of sys.exit, NULL while running
    effects,        \* per process: what this invocation has made durable
    now,            \* the wall clock, ms since midnight
    ticks,          \* clock advances so far
    budget          \* hook firings left

\* setup-usage-tracking.py and the arguments of the pure functions
VARIABLES
    settings,       \* the dict load_settings() returned, as merged so far
    settings_file,  \* the content of ~/.claude/settings.local.json
    event_name,     \* merge_hook's argument
    command,        \* merge_hook's argument
    history,        \* the settings before and after each merge_hook call
    setup_pc,       \* position in main() of the installer
    setup_exit,     \* the installer's exit status, NULL while running
    hooks_done,     \* merge_hook calls setup_hooks has made
    regenerated,    \* what run_settings_merge() did
    tool_name,      \* categorize_tool's argument, as <<prefix, rest>>
    category        \* categorize_tool's result

tracker_vars == <<db, schema, lock, conn, log_file, pc, env, stdin, hook_type,
                  frame, err, exit_status, effects, now, ticks, budget>>

installer_vars == <<settings, settings_file, event_name, command, history,
                    setup_pc, setup_exit, hooks_done, regenerated, tool_name,
                    category>>

vars == <<tracker_vars, installer_vars>>

\* the installer is not running and no function is being applied
InstallerAtRest ==
    /\ settings = <<>>
    /\ settings_file = <<>>
    /\ event_name = ""
    /\ command = ""
    /\ history = <<>>
    /\ setup_pc = "idle"
    /\ setup_exit = NULL
    /\ hooks_done = 0
    /\ regenerated = ""
    /\ tool_name = <<>>
    /\ category = ""

EmptyDb == [sessions |-> <<>>, tool_usage |-> <<>>, commands |-> <<>>, events |-> <<>>]

NoEffects == [sessions |-> 0, tool_usage |-> 0, commands |-> 0, events |-> <<>>, log |-> 0]

\* event_type: the argument; found: fetchone() returned a row;
\* end_time: the first datetime.now() of the UPDATE's arguments
NoFrame == [event_type |-> "", found |-> FALSE, end_time |-> 0]

InitWith(n) ==
    /\ db = EmptyDb
    /\ schema = FALSE
    /\ lock = NoProc
    /\ conn = [p \in Procs |-> EmptyDb]
    /\ log_file = <<>>
    /\ pc = [p \in Procs |-> "idle"]
    /\ env = [p \in Procs |-> ""]
    /\ stdin = [p \in Procs |-> Unparseable]
    /\ hook_type = [p \in Procs |-> ""]
    /\ frame = [p \in Procs |-> NoFrame]
    /\ err = [p \in Procs |-> ""]
    /\ exit_status = [p \in Procs |-> NULL]
    /\ effects = [p \in Procs |-> NoEffects]
    /\ now \in StartClocks
    /\ ticks = 0
    /\ budget = n

Init == InitWith(MaxInvocations) /\ InstallerAtRest

\* ---------------------------------------------------------- store helpers
\* what statements of p's connection work on: its open transaction (the
\* writer lock is p's) or the committed database
View(p) == IF lock = p THEN conn[p] ELSE db

\* a write statement needs the writer lock: free, or already p's
CanWrite(p) == lock \in {NoProc, p}

SessionRows(d, sid) == {i \in 1..Len(d.sessions) : d.sessions[i].session_id = sid}

\* SELECT session_id FROM sessions WHERE session_id = ?  ... fetchone()
SelectSession(d, sid) == SessionRows(d, sid) # {}

\* (mutation) the table has no primary key
InsertSessionNoKey(d, row) ==
    [ok |-> TRUE, db |-> [d EXCEPT !.sessions = Append(@, row)]]

\* (mutation) INSERT OR REPLACE INTO sessions
InsertOrReplaceSession(d, row) ==
    [ok |-> TRUE,
     db |-> [d EXCEPT !.sessions =
                Append(SelectSeq(@, LAMBDA r : r.session_id # row.session_id), row)]]

\* INSERT INTO sessions under session_id TEXT PRIMARY KEY
InsertSession(d, row) ==
    IF SessionRows(d, row.session_id) # {}
    THEN [ok |-> FALSE, db |-> d]
    ELSE [ok |-> TRUE, db |-> [d EXCEPT !.sessions = Append(@, row)]]

\* (mutation) the close creates the row it does not find
UpsertSession(d, sid, end_time, now2) ==
    IF \E i \in 1..Len(d.sessions) : d.sessions[i].session_id = sid
    THEN [d EXCEPT !.sessions =
            [i \in 1..Len(d.sessions) |->
                IF d.sessions[i].session_id = sid
                THEN [d.sessions[i] EXCEPT !.end_time = end_time,
                        !.duration_seconds = DurationSeconds(now2, d.sessions[i].start_time)]
                ELSE d.sessions[i]]]
    ELSE [d EXCEPT !.sessions = Append(@,
            [session_id |-> sid, start_time |-> end_time, end_time |-> end_time,
             duration_seconds |-> 0])]

\* UPDATE sessions SET end_time = ?, duration_seconds = CAST(...) WHERE session_id = ?
UpdateSession(d, sid, end_time, now2) ==
    [d EXCEPT !.sessions =
        [i \in 1..Len(d.sessions) |->
            LET row == d.sessions[i] IN
            IF row.session_id = sid
            THEN [row EXCEPT !.end_time = end_time,
                             !.duration_seconds = DurationSeconds(now2, row.start_time)]
            ELSE row]]

\* (mutation) only 'start' events are stored
InsertStartEventOnly(d, sid, etype, data) ==
    IF etype = "start"
    THEN [d EXCEPT !.events = Append(@, [session_id |-> sid, event_type |-> etype, event_data |-> data])]
    ELSE d

\* INSERT INTO events
InsertEvent(d, sid, etype, data) ==
    [d EXCEPT !.events = Append(@, [session_id |-> sid, event_type |-> etype, event_data |-> data])]

\* the rows of table t that p's transaction adds to the committed database
Added(p, t) == SubSeq(conn[p][t], Len(db[t]) + 1, Len(conn[p][t]))

\* conn.commit(): the transaction becomes the committed database
Commit(p) ==
    /\ lock = p
    /\ db' = conn[p]
    /\ lock' = NoProc
    /\ conn' = [conn EXCEPT ![p] = EmptyDb]
    /\ effects' = [effects EXCEPT ![p] =
            [sessions   |-> @.sessions + Len(Added(p, "sessions")),
             tool_usage |-> @.tool_usage + Len(Added(p, "tool_usage")),
             commands   |-> @.commands + Len(Added(p, "commands")),
             events     |-> @.events \o Added(p, "events"),
             log        |-> @.log]]

\* (mutation) no handler: the interpreter ends with status 1
RaiseUncaught(p, e) ==
    /\ err' = [err EXCEPT ![p] = e]
    /\ exit_status' = [exit_status EXCEPT ![p] = 1]
    /\ lock' = IF lock = p THEN NoProc ELSE lock
    /\ conn' = [conn EXCEPT ![p] = EmptyDb]
    /\ frame' = [frame EXCEPT ![p] = NoFrame]
    /\ pc' = [pc EXCEPT ![p] = "done"]

\* an exception reaches the handler of main(): it is printed and the process
\* exits with sys.exit(0); its open transaction is rolled back and its lock
\* released
Raise(p, e) ==
    /\ err' = [err EXCEPT ![p] = e]
    /\ exit_status' = [exit_status EXCEPT ![p] = 0]
    /\ lock' = IF lock = p THEN NoProc ELSE lock
    /\ conn' = [conn EXCEPT ![p] = EmptyDb]
    /\ frame' = [frame EXCEPT ![p] = NoFrame]
    /\ pc' = [pc EXCEPT ![p] = "done"]

\* main() goes on to its next statement
Goto(p, next) ==
    /\ pc' = [pc EXCEPT ![p] = next]
    /\ UNCHANGED <<err, exit_status>>

\* ------------------------------------------------------------ main(): kind
\* hook_type after lines 211-217: the environment value, replaced by the
\* kind inferred from the payload shape whenever the shape is recognized
ResolveHookType(hint, data) ==
    IF HasKey(data, "tool_name") /\ HasKey(data, "tool_input")
    THEN IF HasKey(data, "tool_response") THEN "PostToolUse" ELSE "PreToolUse"
    ELSE hint

\* the branch of main() taken for a hook type
Dispatch(ht) ==
    IF ht \in {"PreToolUse", "PostToolUse"} THEN "log_tool_usage"
    ELSE IF ht \in {"Stop", "SubagentStop"} THEN "close_now"
    ELSE IF ht = "Notification" THEN "notification"
    ELSE "backup"

\* the event_type main() passes to log_session_event on the stop branches
SessionEventType(ht) ==
    IF ht = "Stop" THEN "stop"
    ELSE IF ht = "SubagentStop" THEN "subagent_stop"
    ELSE ""

\* the processes are interchangeable: the second slot is used only while
\* the first is running
Before(q, p) == q = "p1" /\ p = "p2"

\* ---------------------------------------------------------------- actions
\* the host fires a hook: a new process with its environment and stdin
Invoke(p) ==
    /\ pc[p] = "idle"
    /\ budget > 0
    /\ \A q \in Procs : Before(q, p) => pc[q] \notin {"idle", "done"}
    /\ \E f \in Firings :
        /\ env' = [env EXCEPT ![p] = f[1]]
        /\ stdin' = [stdin EXCEPT ![p] = f[2]]
    /\ pc' = [pc EXCEPT ![p] = "init_database"]
    /\ budget' = budget - 1
    /\ UNCHANGED <<db, schema, lock, conn, log_file, hook_type, frame, err,
                   exit_status, effects, now, ticks>>
    /\ UNCHANGED installer_vars

\* init_database() (CREATE TABLE IF NOT EXISTS x 4, commit, close), then
\* json.load(sys.stdin), the hook type and the branch taken
Startup(p) ==
    /\ pc[p] = "init_database"
    /\ schema' = TRUE
    /\ IF ~stdin[p].json
       THEN /\ Raise(p, "JSONDecodeError")
            /\ UNCHANGED hook_type
       ELSE LET ht == ResolveHookType(env[p], stdin[p]) IN
            /\ hook_type' = [hook_type EXCEPT ![p] = ht]
            /\ frame' = [frame EXCEPT ![p].event_type = SessionEventType(ht)]
            /\ Goto(p, Dispatch(ht))
            /\ UNCHANGED <<lock, conn>>
    /\ env' = [env EXCEPT ![p] = ""]
    /\ UNCHANGED <<db, log_file, stdin, effects, now, ticks, budget>>
    /\ UNCHANGED installer_vars

\* the rows log_tool_usage(data) inserts
ToolUsageRow(data) ==
    [session_id    |-> data.session_id,
     tool_name     |-> data.tool_name,
     tool_category |-> categorize_tool(data.tool_name),
     input_size    |-> Len(Get(data, "tool_input", EmptyObj)),
     output_size   |-> Len(Get(data, "tool_response", EmptyObj))]

CommandRow(data) ==
    [session_id  |-> data.session_id,
     command     |-> ToolInputGet(data.tool_input, "command"),
     description |-> ToolInputGet(data.tool_input, "description")]

\* (mutation) the commands row is inserted without looking for tool_input
InsertToolUsageAnyBash(d, data) ==
    LET d1 == [d EXCEPT !.tool_usage = Append(@, ToolUsageRow(data))] IN
    IF data.tool_name = "Bash"
    THEN [d1 EXCEPT !.commands = Append(@, CommandRow(data))]
    ELSE d1

InsertToolUsage(d, data) ==
    LET d1 == [d EXCEPT !.tool_usage = Append(@, ToolUsageRow(data))] IN
    IF data.tool_name = "Bash" /\ HasKey(data, "tool_input")
    THEN [d1 EXCEPT !.commands = Append(@, CommandRow(data))]
    ELSE d1

\* (mutation) data.get('session_id') in place of data['session_id']
LogToolUsageUnchecked(p) ==
    /\ pc[p] = "log_tool_usage"
    /\ IF ~HasKey(stdin[p], "tool_name")
       THEN Raise(p, "KeyError")
       ELSE /\ CanWrite(p)
            /\ lock' = p
            /\ conn' = [conn EXCEPT ![p] = InsertToolUsage(View(p), stdin[p])]
            /\ Goto(p, "tool_commit")
            /\ UNCHANGED frame
    /\ UNCHANGED <<db, schema, log_file, env, stdin, hook_type, effects, now,
                   ticks, budget>>
    /\ UNCHANGED installer_vars

\* log_tool_usage(data) up to its commit
LogToolUsage(p) ==
    /\ pc[p] = "log_tool_usage"
    /\ IF ~HasKey(stdin[p], "session_id") \/ ~HasKey(stdin[p], "tool_name")
       THEN Raise(p, "KeyError")
       ELSE /\ CanWrite(p)
            /\ lock' = p
            /\ conn' = [conn EXCEPT ![p] = InsertToolUsage(View(p), stdin[p])]
            /\ Goto(p, "tool_commit")
            /\ UNCHANGED frame
    /\ UNCHANGED <<db, schema, log_file, env, stdin, hook_type, effects, now,
                   ticks, budget>>
    /\ UNCHANGED installer_vars

\* conn.commit() of log_tool_usage, then log_session_event(data, 'start')
ToolCommit(p) ==
    /\ pc[p] = "tool_commit"
    /\ Commit(p)
    /\ frame' = [frame EXCEPT ![p].event_type = "start"]
    /\ Goto(p, "session_select")
    /\ UNCHANGED <<schema, log_file, env, stdin, hook_type, now, ticks, budget>>
    /\ UNCHANGED installer_vars

\* log_session_event, 'start': does the session exist?
SessionSelect(p) ==
    /\ pc[p] = "session_select"
    /\ IF ~HasKey(stdin[p], "session_id")
       THEN Raise(p, "KeyError")
       ELSE LET f == SelectSession(View(p), stdin[p].session_id) IN
            /\ frame' = [frame EXCEPT ![p].found = f]
            /\ Goto(p, "session_start")
            /\ UNCHANGED <<lock, conn>>
    /\ UNCHANGED <<db, schema, log_file, env, stdin, hook_type, effects, now,
                   ticks, budget>>
    /\ UNCHANGED installer_vars

\* log_session_event, 'start': insert the session unless one was found,
\* then insert the event
SessionStart(p) ==
    /\ pc[p] = "session_start"
    /\ CanWrite(p)
    /\ LET sid == stdin[p].session_id
           res == IF frame[p].found
                  THEN [ok |-> TRUE, db |-> View(p)]
                  ELSE InsertSession(View(p),
                          [session_id |-> sid, start_time |-> now,
                           end_time |-> NULL, duration_seconds |-> NULL])
       IN  IF res.ok
           THEN /\ lock' = p
                /\ conn' = [conn EXCEPT ![p] =
                        InsertEvent(res.db, sid, frame[p].event_type, stdin[p])]
                /\ frame' = [frame EXCEPT ![p].found = FALSE]
                /\ Goto(p, "session_commit")
           ELSE Raise(p, "IntegrityError")
    /\ UNCHANGED <<db, schema, log_file, env, stdin, hook_type, effects, now,
                   ticks, budget>>
    /\ UNCHANGED installer_vars

\* log_session_event, 'stop' / 'subagent_stop': the first datetime.now()
CloseNow(p) ==
    /\ pc[p] = "close_now"
    /\ frame' = [frame EXCEPT ![p].end_time = now]
    /\ Goto(p, "session_close")
    /\ UNCHANGED <<db, schema, lock, conn, log_file, env, stdin, hook_type,
                   effects, now, ticks, budget>>
    /\ UNCHANGED installer_vars

\* the second datetime.now(), data['session_id'], the UPDATE and the
\* insert of the event
SessionClose(p) ==
    /\ pc[p] = "session_close"
    /\ IF ~HasKey(stdin[p], "session_id")
       THEN Raise(p, "KeyError")
       ELSE LET sid == stdin[p].session_id IN
            /\ CanWrite(p)
            /\ lock' = p
            /\ conn' = [conn EXCEPT ![p] =
                    InsertEvent(UpdateSession(View(p), sid, frame[p].end_time, now),
                                sid, frame[p].event_type, stdin[p])]
            /\ UNCHANGED frame
            /\ Goto(p, "session_commit")
    /\ UNCHANGED <<db, schema, log_file, env, stdin, hook_type, effects, now,
                   ticks, budget>>
    /\ UNCHANGED installer_vars

\* conn.commit() of log_session_event
SessionCommit(p) ==
    /\ pc[p] = "session_commit"
    /\ Commit(p)
    /\ frame' = [frame EXCEPT ![p] = NoFrame]
    /\ Goto(p, "backup")
    /\ UNCHANGED <<schema, log_file, env, stdin, hook_type, now, ticks, budget>>
    /\ UNCHANGED installer_vars

\* main(), Notification: INSERT INTO events
Notification(p) ==
    /\ pc[p] = "notification"
    /\ IF ~HasKey(stdin[p], "session_id")
       THEN Raise(p, "KeyError")
       ELSE /\ CanWrite(p)
            /\ lock' = p
            /\ conn' = [conn EXCEPT ![p] =
                    InsertEvent(View(p), stdin[p].session_id, "notification", stdin[p])]
            /\ Goto(p, "notification_commit")
            /\ UNCHANGED frame
    /\ UNCHANGED <<db, schema, log_file, env, stdin, hook_type, effects, now,
                   ticks, budget>>
    /\ UNCHANGED installer_vars

\* main(), Notification: conn.commit()
NotificationCommit(p) ==
    /\ pc[p] = "notification_commit"
    /\ Commit(p)
    /\ Goto(p, "backup")
    /\ UNCHANGED <<schema, log_file, env, stdin, hook_type, frame, now, ticks,
                   budget>>
    /\ UNCHANGED installer_vars

\* the positions of main() that execute a statement on the store
StoreSteps == {"init_database", "log_tool_usage", "tool_commit", "session_select",
               "session_start", "session_close", "session_commit",
               "notification", "notification_commit"}

\* the store is unavailable or stays locked past the busy timeout:
\* sqlite3.OperationalError out of any statement
StoreError(p) ==
    /\ pc[p] \in StoreSteps
    /\ Raise(p, "OperationalError")
    /\ UNCHANGED <<db, schema, log_file, env, stdin, hook_type, effects, now,
                   ticks, budget>>
    /\ UNCHANGED installer_vars

\* the backup log: one line appended to today's file, then sys.exit(0)
BackupLog(p) ==
    /\ pc[p] = "backup"
    /\ log_file' = Append(log_file, [hook_type |-> hook_type[p], data |-> stdin[p]])
    /\ effects' = [effects EXCEPT ![p].log = @ + 1]
    /\ exit_status' = [exit_status EXCEPT ![p] = 0]
    /\ pc' = [pc EXCEPT ![p] = "done"]
    /\ UNCHANGED <<db, schema, lock, conn, env, stdin, hook_type, frame, err,
                   now, ticks, budget>>
    /\ UNCHANGED installer_vars

\* mkdir or open of the log file fails
BackupLogError(p) ==
    /\ pc[p] = "backup"
    /\ Raise(p, "OSError")
    /\ UNCHANGED <<db, schema, log_file, env, stdin, hook_type, effects, now,
                   ticks, budget>>
    /\ UNCHANGED installer_vars

\* the host collects the exit status; the slot is free again
Reap(p) ==
    /\ pc[p] = "done"
    /\ pc' = [pc EXCEPT ![p] = "idle"]
    /\ env' = [env EXCEPT ![p] = ""]
    /\ stdin' = [stdin EXCEPT ![p] = Unparseable]
    /\ hook_type' = [hook_type EXCEPT ![p] = ""]
    /\ err' = [err EXCEPT ![p] = ""]
    /\ exit_status' = [exit_status EXCEPT ![p] = NULL]
    /\ effects' = [effects EXCEPT ![p] = NoEffects]
    /\ UNCHANGED <<db, schema, lock, conn, log_file, frame, now, ticks, budget>>
    /\ UNCHANGED installer_vars

\* time passes
Tick ==
    /\ ticks < MaxTicks
    /\ \E d \in TickSteps : now' = now + d
    /\ ticks' = ticks + 1
    /\ UNCHANGED <<db, schema, lock, conn, log_file, pc, env, stdin, hook_type,
                   frame, err, exit_status, effects, budget>>
    /\ UNCHANGED installer_vars

\* one step of a running invocation
Step(p) ==
    \/ Startup(p)
    \/ LogToolUsage(p)
    \/ ToolCommit(p)
    \/ SessionSelect(p)
    \/ SessionStart(p)
    \/ CloseNow(p)
    \/ SessionClose(p)
    \/ SessionCommit(p)
    \/ Notification(p)
    \/ NotificationCommit(p)
    \/ StoreError(p)
    \/ BackupLog(p)
    \/ BackupLogError(p)

Next ==
    \/ \E p \in Procs : Invoke(p)
    \/ \E p \in Procs : Step(p)
    \/ \E p \in Procs : Reap(p)
    \/ Tick

Spec == Init /\ [][Next]_vars

\* every running process keeps being scheduled until it has exited
LiveInit == InitWith(LiveInvocations) /\ InstallerAtRest

LiveSpec == LiveInit /\ [][Next]_vars /\ \A p \in Procs : WF_vars(Step(p))

TypeOK ==
    /\ lock \in Procs \cup {NoProc}
    /\ \A p \in Procs : exit_status[p] \in {NULL, 0, 1}
    /\ \A p \in Procs : lock # p => conn[p] = EmptyDb

\* ------------------------------------------ the classifier on its own
\* tool names are a prefix followed by a rest: the names of the table, names
\* under the reserved prefix, near misses of the prefix, and unknown names
NamePrefixes == {"", "mcp__", "mcp_", "Mcp__", "x"}
NameRests == DOMAIN ToolCategories \cup {"", "foo", "UnknownXYZ", "mcp__"}

ToolNameOf(pair) == pair[1] \o pair[2]

ClassifyInit ==
    /\ InitWith(0)
    /\ tool_name \in NamePrefixes \X NameRests
    /\ category = ""
    /\ settings = <<>> /\ settings_file = <<>> /\ event_name = ""
    /\ command = "" /\ history = <<>> /\ setup_pc = "idle"
    /\ setup_exit = NULL /\ hooks_done = 0 /\ regenerated = ""

\* categorize_tool(data['tool_name'])
Categorize ==
    /\ category = ""
    /\ tool_name # <<>>
    /\ category' = categorize_tool(ToolNameOf(tool_name))
    /\ UNCHANGED <<tracker_vars, settings, settings_file, event_name, command,
                   history, setup_pc, setup_exit, hooks_done, regenerated,
                   tool_name>>

ClassifyNext == Categorize

ClassifySpec == ClassifyInit /\ [][ClassifyNext]_vars

\* ------------------------------------------- setup-usage-tracking.py
\* the event names setup_hooks installs a hook for, in its order
HookEvents == <<"PreToolUse", "PostToolUse", "Stop", "SubagentStop", "Notification">>
EventNames == {HookEvents[i] : i \in 1..Len(HookEvents)}

TrackerPath == "/home/u/.claude/scripts/usage-tracker.py"
OldTrackerPath == "/old/usage-tracker.py"

\* f"CLAUDE_HOOK_TYPE={event} python3 {tracker_script}"
TrackerCommand(event, path) == "CLAUDE_HOOK_TYPE=" \o event \o " python3 " \o path

ManualCommand == "echo done"

\* sub in str
Contains(str, sub) ==
    \E i \in 1..(Len(str) - Len(sub) + 1) : SubSeq(str, i, i + Len(sub) - 1) = sub

\* str(hook.get('command', ''))
StrOfCommand(hook) == IF hook.command = Absent THEN "" ELSE hook.command

\* an element of a group's "hooks" list: a JSON object with the keys it holds
Binding(type, cmd) == [isdict |-> TRUE, type |-> type, command |-> cmd]
\* an element that is not a JSON object
ScalarHook == [isdict |-> FALSE, type |-> Absent, command |-> Absent]

\* an element of hooks[event]: a JSON object with a "hooks" list,
Group(matcher, hook_list) ==
    [isdict |-> TRUE, haslist |-> TRUE, matcher |-> matcher, hooks |-> hook_list]
\* a JSON object without one,
BareEntry == [isdict |-> TRUE, haslist |-> FALSE, matcher |-> "Bash", hooks |-> <<>>]
\* and a value that is not a JSON object
ScalarEntry == [isdict |-> FALSE, haslist |-> FALSE, matcher |-> Absent, hooks |-> <<>>]

\* the value under hooks[event]: no such key, not a list, or a list
AbsentSlot == [kind |-> "absent", items |-> <<>>]
ScalarSlot == [kind |-> "scalar", items |-> <<>>]
ListSlot(items) == [kind |-> "list", items |-> items]

NoHooks == [e \in EventNames |-> AbsentSlot]

\* the parsed settings.local.json: a JSON object with its "model" key, its
\* "hooks" key (absent, not an object, or an object) and the hooks per event;
\* or a JSON value that is not an object
Settings(model, hooks_kind, hooks) ==
    [isdict |-> TRUE, model |-> model, hooks_kind |-> hooks_kind, hooks |-> hooks]
ScalarSettings ==
    [isdict |-> FALSE, model |-> Absent, hooks_kind |-> "absent", hooks |-> NoHooks]
EmptySettings == Settings(Absent, "absent", NoHooks)

\* isinstance(entry, dict) and isinstance(entry.get('hooks'), list)
recognized(entry) == entry.isdict /\ entry.haslist

\* (mutation) no group is taken to hold the command
has_exact_never(entry, cmd) == FALSE

has_exact(entry, cmd) ==
    \E i \in 1..Len(entry.hooks) :
        LET hook == entry.hooks[i] IN
        hook.isdict /\ hook.type = "command" /\ hook.command = cmd

\* (mutation) no group is taken to be a stale tracker group
has_stale_tracker_never(entry, event) == FALSE

has_stale_tracker(entry, event) ==
    \E i \in 1..Len(entry.hooks) :
        LET hook == entry.hooks[i] IN
        /\ hook.isdict /\ hook.type = "command"
        /\ Contains(StrOfCommand(hook), "usage-tracker.py")
        /\ Contains(StrOfCommand(hook), "CLAUDE_HOOK_TYPE=" \o event)

\* the group merge_hook appends
NewGroup(cmd) == Group("", <<Binding("command", cmd)>>)

\* (mutation) the group is appended without looking for the command
merge_hook_append(s, event, cmd) ==
    LET hooks0   == IF s.hooks_kind = "dict" THEN s.hooks ELSE NoHooks
        existing == IF hooks0[event].kind = "list" THEN hooks0[event].items ELSE <<>>
        Keep(entry) ==
            \/ ~recognized(entry)
            \/ has_exact(entry, cmd)
            \/ ~has_stale_tracker(entry, event)
    IN  [s EXCEPT !.hooks_kind = "dict",
                  !.hooks = [hooks0 EXCEPT ![event] =
                        ListSlot(Append(SelectSeq(existing, Keep), NewGroup(cmd)))]]

\* (mutation) the hooks object is built anew with the one event
merge_hook_fresh(s, event, cmd) ==
    LET hooks0   == IF s.hooks_kind = "dict" THEN s.hooks ELSE NoHooks
        existing == IF hooks0[event].kind = "list" THEN hooks0[event].items ELSE <<>>
        Keep(entry) ==
            \/ ~recognized(entry)
            \/ has_exact(entry, cmd)
            \/ ~has_stale_tracker(entry, event)
        filtered == SelectSeq(existing, Keep)
        already_present ==
            \E i \in 1..Len(existing) :
                recognized(existing[i]) /\ has_exact(existing[i], cmd)
        final == IF already_present THEN filtered
                 ELSE Append(filtered, NewGroup(cmd))
    IN  [s EXCEPT !.hooks_kind = "dict",
                  !.hooks = [NoHooks EXCEPT ![event] = ListSlot(final)]]

merge_hook(s, event, cmd) ==
    LET hooks0   == IF s.hooks_kind = "dict" THEN s.hooks ELSE NoHooks
        existing == IF hooks0[event].kind = "list" THEN hooks0[event].items ELSE <<>>
        Keep(entry) ==
            \/ ~recognized(entry)
            \/ has_exact(entry, cmd)
            \/ ~has_stale_tracker(entry, event)
        filtered == SelectSeq(existing, Keep)
        already_present ==
            \E i \in 1..Len(existing) :
                recognized(existing[i]) /\ has_exact(existing[i], cmd)
        final == IF already_present THEN filtered
                 ELSE Append(filtered, NewGroup(cmd))
    IN  [s EXCEPT !.hooks_kind = "dict",
                  !.hooks = [hooks0 EXCEPT ![event] = ListSlot(final)]]

\* ---- the documents merge_hook is applied to
MaxGroups == 3
MaxMerges == 2

\* the hooks a group may hold: the current and an old tracker command for
\* Stop, an old tracker command for Notification, a command of the user, the
\* current command under another type, and a value that is not an object
Bindings ==
    {Binding("command", TrackerCommand("Stop", TrackerPath)),
     Binding("command", TrackerCommand("Stop", OldTrackerPath)),
     Binding("command", TrackerCommand("Notification", OldTrackerPath)),
     Binding("command", ManualCommand),
     Binding("prompt", TrackerCommand("Stop", TrackerPath)),
     ScalarHook}

Entries ==
    {Group("", <<b>>) : b \in Bindings}
    \cup {Group("Bash", <<Binding("command", ManualCommand),
                          Binding("command", TrackerCommand("Stop", OldTrackerPath))>>),
          Group("", <<Binding("command", TrackerCommand("Stop", OldTrackerPath)),
                      Binding("command", TrackerCommand("Stop", TrackerPath))>>),
          Group("Edit", <<Binding("command", ManualCommand)>>),
          BareEntry, ScalarEntry}

EntryLists == UNION {[1..n -> Entries] : n \in 0..MaxGroups}

Slots == {AbsentSlot, ScalarSlot} \cup {ListSlot(l) : l \in EntryLists}

Documents ==
    {Settings("opus", "absent", NoHooks), Settings("opus", "scalar", NoHooks)}
    \cup {Settings("opus", "dict",
                   [NoHooks EXCEPT !["Stop"] = stop, !["Notification"] = other]) :
            stop \in Slots,
            other \in {AbsentSlot,
                       ListSlot(<<Group("", <<Binding("command",
                            TrackerCommand("Notification", OldTrackerPath))>>)>>)}}

\* the calls: the current and the old command for Stop, the current one for
\* Notification, and a command of the user
MergeArgs ==
    {<<"Stop", TrackerCommand("Stop", TrackerPath)>>,
     <<"Stop", TrackerCommand("Stop", OldTrackerPath)>>,
     <<"Notification", TrackerCommand("Notification", TrackerPath)>>,
     <<"Stop", ManualCommand>>}

MergeInit ==
    /\ InitWith(0)
    /\ \E doc \in Documents, a \in MergeArgs :
        /\ settings = doc
        /\ event_name = a[1]
        /\ command = a[2]
        /\ history = <<doc>>
    /\ settings_file = <<>> /\ setup_pc = "idle" /\ setup_exit = NULL
    /\ hooks_done = 0 /\ regenerated = "" /\ tool_name = <<>> /\ category = ""

\* merge_hook(settings, event_name, command), settings being changed in place
MergeHook ==
    /\ history # <<>>
    /\ Len(history) <= MaxMerges
    /\ settings' = merge_hook(settings, event_name, command)
    /\ history' = Append(history, settings')
    /\ UNCHANGED <<tracker_vars, settings_file, event_name, command, setup_pc,
                   setup_exit, hooks_done, regenerated, tool_name, category>>

MergeNext == MergeHook

MergeSpec == MergeInit /\ [][MergeNext]_vars

\* ---- the installer: main() of setup-usage-tracking.py
\* settings.local.json: not there, not JSON, or the JSON text of a value
MissingFile == [kind |-> "missing", value |-> EmptySettings]
CorruptFile == [kind |-> "corrupt", value |-> EmptySettings]
JsonFile(value) == [kind |-> "json", value |-> value]

SettingsFiles ==
    {MissingFile, CorruptFile, JsonFile(ScalarSettings)}
    \cup {JsonFile(doc) : doc \in Documents}

SetupInit ==
    /\ InitWith(0)
    /\ settings_file \in SettingsFiles
    /\ settings = EmptySettings
    /\ setup_pc = "load_settings"
    /\ setup_exit = NULL
    /\ hooks_done = 0
    /\ regenerated = ""
    /\ event_name = "" /\ command = "" /\ history = <<>>
    /\ tool_name = <<>> /\ category = ""

\* (mutation) a file that cannot be parsed is read as an empty object
load_settings_lenient(file) ==
    IF file.kind = "json"
    THEN [ok |-> TRUE, settings |-> file.value]
    ELSE [ok |-> TRUE, settings |-> EmptySettings]

\* load_settings(): {} without a file, json.load(f) with one, which raises
\* on text that is not JSON
load_settings(file) ==
    IF file.kind = "missing" THEN [ok |-> TRUE, settings |-> EmptySettings]
    ELSE IF file.kind = "json" THEN [ok |-> TRUE, settings |-> file.value]
    ELSE [ok |-> FALSE, settings |-> EmptySettings]

\* except Exception in main(): the message is printed, exit(1)
SetupFail ==
    /\ setup_pc' = "done"
    /\ setup_exit' = 1

\* settings = load_settings()
LoadSettings ==
    /\ setup_pc = "load_settings"
    /\ LET res == load_settings(settings_file) IN
        IF res.ok
        THEN /\ settings' = res.settings
             /\ setup_pc' = "merge_hook"
             /\ UNCHANGED setup_exit
        ELSE /\ SetupFail
             /\ UNCHANGED settings
    /\ UNCHANGED <<tracker_vars, settings_file, event_name, command, history,
                   hooks_done, regenerated, tool_name, category>>

\* the next of the five merge_hook calls of setup_hooks; on a value that is
\* not an object the assignment settings['hooks'] = {} raises TypeError
SetupMergeHook ==
    /\ setup_pc = "merge_hook"
    /\ IF ~settings.isdict
       THEN /\ SetupFail
            /\ UNCHANGED <<settings, hooks_done>>
       ELSE LET event == HookEvents[hooks_done + 1] IN
            /\ settings' = merge_hook(settings, event, TrackerCommand(event, TrackerPath))
            /\ hooks_done' = hooks_done + 1
            /\ setup_pc' = IF hooks_done' = Len(HookEvents)
                           THEN "save_settings" ELSE "merge_hook"
            /\ UNCHANGED setup_exit
    /\ UNCHANGED <<tracker_vars, settings_file, event_name, command, history,
                   regenerated, tool_name, category>>

\* save_settings(settings): json.dump into settings.local.json
SaveSettings ==
    /\ setup_pc = "save_settings"
    /\ settings_file' = JsonFile(settings)
    /\ setup_pc' = "run_settings_merge"
    /\ UNCHANGED <<tracker_vars, settings, event_name, command, history,
                   setup_exit, hooks_done, regenerated, tool_name, category>>

\* save_settings(settings): the directory or the file cannot be written
SaveSettingsError ==
    /\ setup_pc = "save_settings"
    /\ SetupFail
    /\ UNCHANGED <<tracker_vars, settings, settings_file, event_name, command,
                   history, hooks_done, regenerated, tool_name, category>>

\* run_settings_merge(): claude-settings-merge is not found, runs, or fails;
\* main() returns in each case
RunSettingsMerge ==
    /\ setup_pc = "run_settings_merge"
    /\ regenerated' \in {"not_found", "ok", "failed"}
    /\ setup_pc' = "done"
    /\ setup_exit' = 0
    /\ UNCHANGED <<tracker_vars, settings, settings_file, event_name, command,
                   history, hooks_done, tool_name, category>>

SetupNext ==
    \/ LoadSettings
    \/ SetupMergeHook
    \/ SaveSettings
    \/ SaveSettingsError
    \/ RunSettingsMerge

SetupSpec == SetupInit /\ [][SetupNext]_vars

\* ------------------------------------------------------------- properties
ToolKinds == {"PreToolUse", "PostToolUse"}
StopKinds == {"Stop", "SubagentStop"}
StopEvents == {"stop", "subagent_stop"}

\* C1: every invocation of the entry point terminates, and whatever the
\* input and whatever the store did, its exit status is 0.
C1_AlwaysExitsZero ==
    /\ [](\A p \in Procs : pc[p] = "done" => exit_status[p] = 0)
    /\ \A p \in Procs : (pc[p] = "init_database") ~> (pc[p] = "done")

\* an invocation that lost the race for the session row (constraint
\* violation) has exited with status 0
C1_Witness ==
    \E p \in Procs : pc[p] = "done" /\ err[p] = "IntegrityError" /\ exit_status[p] = 0

\* C2: the sessions table never holds two rows for one session id, and
\* once a PreToolUse/PostToolUse invocation carrying a session id and a
\* tool name has ended without a store error, exactly one row exists for
\* that id.
C2_OneSessionRow ==
    /\ \A i, j \in 1..Len(db.sessions) :
            db.sessions[i].session_id = db.sessions[j].session_id => i = j
    /\ \A p \in Procs :
            ( /\ pc[p] = "done"
              /\ hook_type[p] \in ToolKinds
              /\ HasKey(stdin[p], "session_id")
              /\ HasKey(stdin[p], "tool_name")
              /\ err[p] # "OperationalError" )
            => Cardinality(SessionRows(db, stdin[p].session_id)) = 1

\* a later tool event for the session has ended, it found the row of an
\* earlier one and there is one row
C2_Witness ==
    \E p \in Procs :
        /\ pc[p] = "done" /\ hook_type[p] \in ToolKinds /\ err[p] = ""
        /\ effects[p].tool_usage = 1 /\ effects[p].sessions = 0
        /\ Len(db.tool_usage) >= 2
        /\ Cardinality(SessionRows(db, stdin[p].session_id)) = 1

\* C3: no step, of whatever invocation and however interleaved, creates a
\* second row for a session id that has one or changes the start_time of
\* an existing row.
C3_OpenIsIdempotent ==
    [][\A i \in 1..Len(db.sessions) :
            /\ i <= Len(db'.sessions)
            /\ db'.sessions[i].session_id = db.sessions[i].session_id
            /\ db'.sessions[i].start_time = db.sessions[i].start_time
            /\ SessionRows(db', db.sessions[i].session_id) = {i}]_vars

\* two invocations ran the check-then-insert concurrently: the loser found
\* no row, and the insert of the winner is committed
C3_Witness ==
    \E p \in Procs :
        /\ err[p] = "IntegrityError"
        /\ Cardinality(SessionRows(db, stdin[p].session_id)) = 1

\* C4: in every committed state every usage row's session has its row.
C4_UsageHasSession ==
    \A i \in 1..Len(db.tool_usage) :
        SessionRows(db, db.tool_usage[i].session_id) # {}

\* C5: the resolved kind is the hint when a hint is present, and is
\* inferred from the payload shape only without one.
C5_HintDecidesKind ==
    [][\A p \in Procs :
        (pc[p] = "init_database" /\ stdin[p].json /\ err'[p] = "" /\ pc'[p] # pc[p])
        => hook_type'[p] =
             IF env[p] # "" THEN env[p]
             ELSE IF HasKey(stdin[p], "tool_name") /\ HasKey(stdin[p], "tool_input")
                  THEN IF HasKey(stdin[p], "tool_response")
                       THEN "PostToolUse" ELSE "PreToolUse"
                  ELSE ""]_vars

\* C6: an invocation with a parseable payload has inserted exactly one
\* event row, of the resolved kind and with the payload as its data (when
\* nothing was raised).
C6_OneEventOfResolvedKind ==
    \A p \in Procs :
        (pc[p] = "done" /\ stdin[p].json /\ err[p] = "")
        => /\ Len(effects[p].events) = 1
           /\ effects[p].events[1].event_type = hook_type[p]
           /\ effects[p].events[1].event_data = stdin[p]

\* C7: the backup line is appended after the store writes of the
\* invocation, and is appended whether or not they succeeded (the append
\* itself may fail).
C7_BackupLineAlways ==
    \A p \in Procs :
        /\ effects[p].log > 0 => pc[p] = "done"
        /\ (pc[p] = "done" /\ stdin[p].json /\ err[p] # "OSError")
           => effects[p].log = 1

\* C8: a closed session's duration is the whole number of seconds between
\* its start_time and its end_time; closed 125 s after it was opened, 125.
C8_DurationIsFloor ==
    \A i \in 1..Len(db.sessions) :
        LET row == db.sessions[i] IN
        row.end_time # NULL
        => /\ row.duration_seconds = (row.end_time - row.start_time) \div 1000
           /\ row.end_time = row.start_time + 125000 => row.duration_seconds = 125

\* C9: a second close of a session, at a later time T2, raises nothing and
\* leaves end_time = T2 and duration_seconds = floor(T2 - start_time), with
\* start_time as it was.
C9_SecondCloseWins ==
    [][\A p \in Procs :
        ( /\ pc[p] = "session_commit" /\ pc'[p] = "backup"
          /\ frame[p].event_type \in StopEvents )
        => \A i \in 1..Len(db.sessions) :
             LET old == db.sessions[i]
                 new == db'.sessions[i]
                 T2  == frame[p].end_time
             IN  ( /\ old.session_id = stdin[p].session_id
                   /\ old.end_time # NULL /\ old.end_time < T2 )
                 => /\ new.end_time = T2
                    /\ new.duration_seconds = (T2 - old.start_time) \div 1000
                    /\ new.start_time = old.start_time]_vars

\* C10: a close for a session id without a row raises nothing (the store
\* being available), and neither its UPDATE nor its commit changes or
\* creates a session row.
C10_CloseOfUnopened ==
    [][\A p \in Procs :
        ( /\ pc[p] \in {"session_close", "session_commit"}
          /\ frame[p].event_type \in StopEvents
          /\ pc'[p] # pc[p]
          /\ HasKey(stdin[p], "session_id")
          /\ SessionRows(db, stdin[p].session_id) = {} )
        => /\ db'.sessions = db.sessions
           /\ SessionRows(View(p)', stdin[p].session_id) = {}
           /\ err'[p] \in {"", "OperationalError"}]_vars

\* a Stop for a session that was never opened is committed, with its event,
\* beside the row of another session
C10_Witness ==
    \E p \in Procs :
        /\ pc[p] = "backup" /\ hook_type[p] \in StopKinds
        /\ SessionRows(db, stdin[p].session_id) = {}
        /\ Len(effects[p].events) = 1
        /\ db.sessions # <<>>

\* C11: the session lifecycle only moves forward: a session row whose
\* end_time is set keeps its place and its id and has an end_time after every
\* step of every invocation, further PreToolUse/PostToolUse events for that
\* id included.
C11_LifecycleForward ==
    [][\A i \in 1..Len(db.sessions) :
        db.sessions[i].end_time # NULL
        => /\ i <= Len(db'.sessions)
           /\ db'.sessions[i].session_id = db.sessions[i].session_id
           /\ db'.sessions[i].end_time # NULL]_vars

\* a tool event for a closed session has been stored, event row included,
\* with nobody else running, and the row is still closed
C11_Witness ==
    \E p \in Procs :
        /\ pc[p] = "backup" /\ hook_type[p] \in ToolKinds
        /\ effects[p].tool_usage = 1 /\ Len(effects[p].events) = 1
        /\ effects[p].sessions = 0
        /\ \A q \in Procs \ {p} : pc[q] = "idle"
        /\ \E i \in SessionRows(db, stdin[p].session_id) :
                db.sessions[i].end_time # NULL

\* C12: an invocation whose payload has no session_id, whatever its kind,
\* commits no session row, no tool_usage row and no commands row, has none
\* pending, and ends with exit status 0.
C12_NoSessionIdWritesNothing ==
    \A p \in Procs :
        (stdin[p].json /\ ~HasKey(stdin[p], "session_id"))
        => /\ effects[p].sessions = 0
           /\ effects[p].tool_usage = 0
           /\ effects[p].commands = 0
           /\ conn[p].sessions = <<>> /\ conn[p].tool_usage = <<>>
           /\ conn[p].commands = <<>>
           /\ pc[p] = "done" => exit_status[p] = 0

\* a PreToolUse without session_id has ended on its KeyError
C12_Witness ==
    \E p \in Procs :
        /\ pc[p] = "done" /\ hook_type[p] \in ToolKinds
        /\ stdin[p].json /\ ~HasKey(stdin[p], "session_id")
        /\ err[p] = "KeyError" /\ exit_status[p] = 0

\* the invocation is a tool event with a session id and a tool name whose
\* log_tool_usage has committed
C19_Logged(p) ==
    /\ hook_type[p] \in ToolKinds
    /\ HasKey(stdin[p], "session_id") /\ HasKey(stdin[p], "tool_name")
    /\ \/ pc[p] \in {"session_select", "session_start", "session_commit", "backup"}
       \/ pc[p] = "done" /\ err[p] # "OperationalError"

\* invocations of the other kinds store no tool_usage and no commands row
C19_OthersInsertNeither ==
    \A p \in Procs :
        hook_type[p] \notin ToolKinds
        => /\ effects[p].tool_usage = 0 /\ effects[p].commands = 0
           /\ lock = p => /\ Added(p, "tool_usage") = <<>>
                          /\ Added(p, "commands") = <<>>

\* C19: a PreToolUse/PostToolUse invocation with a session id and a tool
\* name, the store accepting its write, stores exactly one tool_usage row
\* with that id and name, and exactly one commands row if and only if the
\* tool is Bash and the payload has a tool_input, command and description
\* being "" when tool_input lacks them; with Bash and no tool_input there is
\* no commands row.  Invocations of the other kinds store neither.
C19_ToolRows ==
    /\ [](/\ C19_OthersInsertNeither
          /\ \A p \in Procs :
                C19_Logged(p)
                => /\ effects[p].tool_usage = 1
                   /\ effects[p].commands =
                        IF stdin[p].tool_name = "Bash" /\ HasKey(stdin[p], "tool_input")
                        THEN 1 ELSE 0)
    /\ [][\A p \in Procs :
            (pc[p] = "tool_commit" /\ pc'[p] = "session_select")
            => /\ Len(db'.tool_usage) = Len(db.tool_usage) + 1
               /\ SubSeq(db'.tool_usage, 1, Len(db.tool_usage)) = db.tool_usage
               /\ LET row == db'.tool_usage[Len(db'.tool_usage)] IN
                    /\ row.session_id = stdin[p].session_id
                    /\ row.tool_name = stdin[p].tool_name
               /\ db'.commands =
                    IF stdin[p].tool_name = "Bash" /\ HasKey(stdin[p], "tool_input")
                    THEN Append(db.commands,
                            [session_id  |-> stdin[p].session_id,
                             command     |-> IF stdin[p].tool_input = LsInput
                                             THEN "ls" ELSE "",
                             description |-> ""])
                    ELSE db.commands]_vars

\* C19 as stated: a commands row for every Bash invocation, also without a
\* tool_input
C19_CommandIffBash ==
    /\ C19_OthersInsertNeither
    /\ \A p \in Procs :
        C19_Logged(p)
        => /\ effects[p].tool_usage = 1
           /\ effects[p].commands = IF stdin[p].tool_name = "Bash" THEN 1 ELSE 0

\* a Bash call without tool_input has stored its tool_usage row and no
\* commands row, after a Bash call with tool_input stored its command
C19_Witness ==
    \E p \in Procs :
        /\ C19_Logged(p) /\ pc[p] = "backup"
        /\ stdin[p].tool_name = "Bash" /\ ~HasKey(stdin[p], "tool_input")
        /\ effects[p].tool_usage = 1 /\ effects[p].commands = 0
        /\ \E i \in 1..Len(db.commands) :
                db.commands[i].command = "ls" /\ db.commands[i].description = ""

\* C20: two PreToolUse/PostToolUse invocations for the same session id that
\* overlap, one of them creating the session row, the store and the log
\* directory refusing nothing: once both have ended, each has committed its
\* tool_usage row and its event row and appended its backup line, and the
\* session has exactly one row.
C20_BothComplete ==
    \A p, q \in Procs :
        ( /\ p # q
          /\ pc[p] = "done" /\ pc[q] = "done"
          /\ hook_type[p] \in ToolKinds /\ hook_type[q] \in ToolKinds
          /\ HasKey(stdin[p], "session_id") /\ HasKey(stdin[p], "tool_name")
          /\ HasKey(stdin[q], "session_id") /\ HasKey(stdin[q], "tool_name")
          /\ stdin[p].session_id = stdin[q].session_id
          /\ effects[p].sessions + effects[q].sessions >= 1
          /\ err[p] \notin {"OperationalError", "OSError"}
          /\ err[q] \notin {"OperationalError", "OSError"} )
        => /\ effects[p].tool_usage = 1 /\ effects[q].tool_usage = 1
           /\ Len(effects[p].events) = 1 /\ Len(effects[q].events) = 1
           /\ effects[p].log = 1 /\ effects[q].log = 1
           /\ Cardinality(SessionRows(db, stdin[p].session_id)) = 1

\* C18: categorize_tool applies its rules in order and answers for every
\* name: a name under the prefix mcp__ is "mcp"; otherwise a name of the
\* table has its table category, Bash being "shell"; otherwise the result
\* is "other".
C18_CategorizeRules ==
    category # ""
    => LET pre  == tool_name[1]
           rest == tool_name[2]
           reserved == pre = "mcp__" \/ (pre = "" /\ rest = "mcp__")
       IN  /\ reserved => category = "mcp"
           /\ (pre = "" /\ rest = "Bash") => category = "shell"
           /\ (pre = "" /\ rest \in DOMAIN ToolCategories)
                => category = ToolCategories[rest]
           /\ (~reserved /\ ~(pre = "" /\ rest \in DOMAIN ToolCategories))
                => category = "other"

\* mcp__Bash has been classified, as "mcp"
C18_Witness ==
    /\ tool_name = <<"mcp__", "Bash">>
    /\ category = "mcp"

\* the groups under hooks[event] of a document
GroupsOf(s, event) ==
    IF s.hooks_kind = "dict" /\ s.hooks[event].kind = "list"
    THEN s.hooks[event].items ELSE <<>>

\* C13: merge_hook is idempotent: for every document, event name and
\* command, the document after the second call is the document after the
\* first.
C13_MergeIdempotent ==
    Len(history) >= 3 => history[3] = history[2]

\* the first call dropped a group and added one, the second has been made
C13_Witness ==
    /\ Len(history) = 3
    /\ history[2] # history[1]
    /\ Len(GroupsOf(history[1], event_name)) = 3
    /\ \E i \in 1..3 :
            /\ GroupsOf(history[1], event_name)[i] # NewGroup(command)
            /\ \A j \in 1..Len(GroupsOf(history[2], event_name)) :
                    GroupsOf(history[2], event_name)[j]
                        # GroupsOf(history[1], event_name)[i]
    /\ GroupsOf(history[2], event_name)[Len(GroupsOf(history[2], event_name))]
            = NewGroup(command)

\* the number of groups of hooks[event] holding {type: command, command: cmd}
ExactGroups(s, event, cmd) ==
    Cardinality({i \in 1..Len(GroupsOf(s, event)) :
        LET g == GroupsOf(s, event)[i] IN
        /\ g.isdict /\ g.haslist
        /\ \E k \in 1..Len(g.hooks) :
                g.hooks[k] = Binding("command", cmd)})

\* C14: after merge_hook(settings, event, cmd) at least one group of
\* hooks[event] holds the binding {type: command, command: cmd}: exactly one
\* when the input held it in no group or in one, and as many as the input
\* held otherwise, merge_hook adding a group only when there was none.
C14_AtLeastOnce ==
    \A k \in 2..Len(history) :
        LET before == ExactGroups(history[k - 1], event_name, command)
            after  == ExactGroups(history[k], event_name, command)
        IN  after = IF before = 0 THEN 1 ELSE before

\* C14 as stated: exactly one group holds the command after any merge
C14_ExactlyOnce ==
    \A k \in 2..Len(history) :
        ExactGroups(history[k], event_name, command) = 1

\* the command was in two groups of the input and has been merged
C14_Witness ==
    /\ Len(history) >= 2
    /\ ExactGroups(history[1], event_name, command) = 2
    /\ ExactGroups(history[2], event_name, command) = 2

\* a group all of whose hooks are commands of the user
C15_ManualGroup(g) ==
    /\ g.isdict /\ g.haslist /\ g.hooks # <<>>
    /\ \A k \in 1..Len(g.hooks) : g.hooks[k] = Binding("command", ManualCommand)

\* a group holding the command the tracker was installed with before, and
\* not the current one
C15_StaleGroup(g, event) ==
    /\ g.isdict /\ g.haslist
    /\ \E k \in 1..Len(g.hooks) :
            g.hooks[k] = Binding("command", TrackerCommand(event, OldTrackerPath))
    /\ \A k \in 1..Len(g.hooks) :
            g.hooks[k] # Binding("command", TrackerCommand(event, TrackerPath))

\* hooks[event] of the input holds stale tracker groups and groups of the
\* user, at least one of each, and the command merged is the current one
C15_Case ==
    /\ Len(history) >= 2
    /\ command = TrackerCommand(event_name, TrackerPath)
    /\ LET gs == GroupsOf(history[1], event_name) IN
        /\ \A i \in 1..Len(gs) :
                C15_ManualGroup(gs[i]) \/ C15_StaleGroup(gs[i], event_name)
        /\ \E i \in 1..Len(gs) : C15_ManualGroup(gs[i])
        /\ \E i \in 1..Len(gs) : C15_StaleGroup(gs[i], event_name)

\* C15: when hooks[event] holds a stale tracker group for an old command (a
\* group with the old command and without the new one) and groups the user
\* added, merging the current command leaves exactly the
\* user's groups, unchanged and in their order, followed by one new group
\* with the single binding {type: command, command: cmd}; the stale group
\* is gone.
C15_StaleReplaced ==
    C15_Case
    => GroupsOf(history[2], event_name)
        = SelectSeq(GroupsOf(history[1], event_name), C15_ManualGroup)
            \o <<Group("", <<Binding("command", command)>>)>>

\* a stale group between two different groups of the user has been replaced
C15_Witness ==
    /\ C15_Case
    /\ LET gs == GroupsOf(history[1], event_name) IN
        /\ Len(gs) = 3
        /\ C15_ManualGroup(gs[1]) /\ C15_StaleGroup(gs[2], event_name)
        /\ C15_ManualGroup(gs[3]) /\ gs[1] # gs[3]
    /\ Len(GroupsOf(history[2], event_name)) = 3

\* the entries of hooks[event] that are not groups: not an object, or an
\* object without a list of hooks
C16_Unrecognized(entry) == ~entry.isdict \/ ~entry.haslist

\* C16: merge_hook(settings, event, cmd) changes nothing outside
\* hooks[event]: the other top-level key keeps its value, the entry of every
\* other event name is as it was (and absent if there was no hooks object),
\* and the entries of hooks[event] that are not groups are all still there,
\* unchanged and in their order.
C16_MergeFrame ==
    \A k \in 2..Len(history) :
        LET old == history[k - 1]
            new == history[k]
        IN  /\ new.isdict /\ new.model = old.model
            /\ new.hooks_kind = "dict"
            /\ \A e \in EventNames \ {event_name} :
                    new.hooks[e] = IF old.hooks_kind = "dict"
                                   THEN old.hooks[e] ELSE AbsentSlot
            /\ new.hooks[event_name].kind = "list"
            /\ SelectSeq(GroupsOf(new, event_name), C16_Unrecognized)
                    = SelectSeq(GroupsOf(old, event_name), C16_Unrecognized)

\* Stop has been merged into a document with a Notification entry and two
\* different entries under Stop that are not groups, around a stale group
C16_Witness ==
    /\ Len(history) >= 2 /\ event_name = "Stop"
    /\ history[1].hooks["Notification"].kind = "list"
    /\ LET gs == GroupsOf(history[1], "Stop") IN
        /\ Len(gs) = 3
        /\ C16_Unrecognized(gs[1]) /\ C16_Unrecognized(gs[3]) /\ gs[1] # gs[3]
        /\ ~C16_Unrecognized(gs[2])
    /\ Len(GroupsOf(history[2], "Stop")) = 3
    /\ history[2] # history[1]

\* C17: when settings.local.json is not JSON, the installer ends with a
\* non-zero exit status, the file is never written, and
\* run_settings_merge is never reached.
C17_CorruptConfigFails ==
    /\ [](settings_file = CorruptFile
            => /\ setup_pc # "run_settings_merge"
               /\ regenerated = ""
               /\ setup_pc = "done" => setup_exit \notin {NULL, 0})
    /\ [][settings_file = CorruptFile => settings_file' = settings_file]_vars

\* the installer has ended on a file that is not JSON
C17_Witness ==
    /\ settings_file = CorruptFile
    /\ setup_pc = "done"
    /\ setup_exit = 1

\* the groups among the entries of hooks[event]
C21_Groups(s, event) == SelectSeq(GroupsOf(s, event), recognized)

\* the group holds the binding {type: command, command: cmd}
C21_HoldsCommand(g, cmd) ==
    \E k \in 1..Len(g.hooks) : g.hooks[k] = Binding("command", cmd)

\* the group holds a command binding with the tracker's path segment and
\* the tag of the event
C21_HoldsStale(g, event) ==
    \E k \in 1..Len(g.hooks) :
        LET h == g.hooks[k] IN
        /\ h.isdict /\ h.type = "command" /\ h.command # Absent
        /\ Contains(h.command, "usage-tracker.py")
        /\ Contains(h.command, "CLAUDE_HOOK_TYPE=" \o event)

\* some group of the input holds the command
C21_Present(s, event, cmd) ==
    \E i \in 1..Len(C21_Groups(s, event)) :
        C21_HoldsCommand(C21_Groups(s, event)[i], cmd)

\* C21: when some group of hooks[event] already holds the command,
\* merge_hook appends no group and keeps, unchanged and in order, every
\* group that holds the command (a stale tracker binding beside it or not)
\* and every group without a stale tracker binding for the event; a group
\* with a stale tracker binding and without the command is dropped.
C21_PresentKeepsGroups ==
    \A k \in 2..Len(history) :
        C21_Present(history[k - 1], event_name, command)
        => LET Kept(g) == \/ C21_HoldsCommand(g, command)
                          \/ ~C21_HoldsStale(g, event_name)
           IN  C21_Groups(history[k], event_name)
                = SelectSeq(C21_Groups(history[k - 1], event_name), Kept)

\* C21 as stated: with the command present every group is retained, the
\* groups with a stale tracker binding included
C21_PresentKeepsAll ==
    \A k \in 2..Len(history) :
        C21_Present(history[k - 1], event_name, command)
        => C21_Groups(history[k], event_name)
            = C21_Groups(history[k - 1], event_name)

\* the input held the command in one group, a stale binding beside the
\* command in another and a stale binding alone in a third: two are left
C21_Witness ==
    /\ Len(history) >= 2
    /\ LET gs == C21_Groups(history[1], event_name) IN
        /\ Len(gs) = 3
        /\ \E i \in 1..3 : C21_HoldsCommand(gs[i], command)
                            /\ ~C21_HoldsStale(gs[i], event_name)
        /\ \E i \in 1..3 : C21_HoldsCommand(gs[i], command)
                            /\ \E k \in 1..Len(gs[i].hooks) :
                                gs[i].hooks[k] = Binding("command",
                                    TrackerCommand(event_name, OldTrackerPath))
        /\ \E i \in 1..3 : ~C21_HoldsCommand(gs[i], command)
                            /\ C21_HoldsStale(gs[i], event_name)
    /\ Len(C21_Groups(history[2], event_name)) = 2

\* the stale tracker bindings for the event left in the groups of a
\* document: command bindings other than cmd with the tracker's path
\* segment and the tag of the event, as <<group, hook>> positions
C22_Stale(s, event, cmd) ==
    LET gs == C21_Groups(s, event)
        StaleAt(i) ==
            {k \in 1..Len(gs[i].hooks) :
                LET h == gs[i].hooks[k] IN
                /\ h.isdict /\ h.type = "command" /\ h.command # Absent
                /\ h.command # cmd
                /\ Contains(h.command, "usage-tracker.py")
                /\ Contains(h.command, "CLAUDE_HOOK_TYPE=" \o event)}
    IN  UNION {{<<i, k>> : k \in StaleAt(i)} : i \in 1..Len(gs)}

\* C22: after merge_hook(settings, event, cmd) a stale tracker binding for
\* the event is left in hooks[event] only in a group that also holds the
\* command: every group without the command is free of them.
C22_StaleOnlyBesideCommand ==
    \A n \in 2..Len(history) :
        \A pos \in C22_Stale(history[n], event_name, command) :
            C21_HoldsCommand(C21_Groups(history[n], event_name)[pos[1]], command)

\* C22 as stated: no stale tracker binding for the event is left at all
C22_NoStaleLeft ==
    \A n \in 2..Len(history) :
        C22_Stale(history[n], event_name, command) = {}

\* the input held a stale binding alone in one group and beside the command
\* in another: one stale binding is gone, the other is still there
C22_Witness ==
    /\ Len(history) >= 2
    /\ Cardinality(C22_Stale(history[1], event_name, command)) = 2
    /\ Cardinality(C22_Stale(history[2], event_name, command)) = 1
    /\ \E i \in 1..Len(C21_Groups(history[1], event_name)) :
            /\ ~C21_HoldsCommand(C21_Groups(history[1], event_name)[i], command)
            /\ C21_HoldsStale(C21_Groups(history[1], event_name)[i], event_name)

\* the session ids with a row in a table of the committed store
C23_Ids(rows) == {rows[i].session_id : i \in 1..Len(rows)}

\* C23: in every committed state of the store each session row has a
\* tool_usage row with its session_id, and the step that commits a new
\* session row is the commit of a PreToolUse/PostToolUse invocation whose
\* tool_usage row was committed before; Stop, SubagentStop, Notification and
\* unrecognized invocations never add a session row.
C23_SessionHasUsage ==
    /\ [](/\ C23_Ids(db.sessions) \subseteq C23_Ids(db.tool_usage)
          /\ \A p \in Procs :
                hook_type[p] \notin ToolKinds => effects[p].sessions = 0)
    /\ [][Len(db'.sessions) > Len(db.sessions)
            => \E p \in Procs :
                /\ pc[p] = "session_commit" /\ pc'[p] # pc[p]
                /\ hook_type[p] \in ToolKinds
                /\ effects[p].tool_usage = 1
                /\ stdin[p].session_id \in C23_Ids(db.tool_usage)
                /\ db'.sessions = Append(db.sessions,
                        db'.sessions[Len(db'.sessions)])
                /\ db'.sessions[Len(db'.sessions)].session_id
                        = stdin[p].session_id]_vars

\* a session row stands beside its tool_usage row while a Stop or a
\* Notification carrying an id without a row has stored its event
C23_Witness ==
    /\ db.sessions # <<>>
    /\ C23_Ids(db.sessions) \subseteq C23_Ids(db.tool_usage)
    /\ \E i \in 1..Len(db.events) :
            /\ db.events[i].event_type \in StopEvents \cup {"notification"}
            /\ db.events[i].session_id \notin C23_Ids(db.sessions)

\* the committed store holds a stop or subagent_stop event for the session
C24_HasStopEvent(d, sid) ==
    \E j \in 1..Len(d.events) :
        d.events[j].session_id = sid /\ d.events[j].event_type \in StopEvents

\* C24: in every committed state of the store a session row with an
\* end_time has a stop or subagent_stop event with its session_id, and the
\* two become visible in one step: a step that changes the end_time of a
\* row also adds one stop event for that session, and a step that adds a
\* stop event for a session with a row also sets the row's end_time.
C24_CloseWithEvent ==
    /\ [](\A i \in 1..Len(db.sessions) :
            db.sessions[i].end_time # NULL
            => C24_HasStopEvent(db, db.sessions[i].session_id))
    /\ [][\A i \in 1..Len(db.sessions) :
            LET sid == db.sessions[i].session_id
                gained == Len(db'.events) = Len(db.events) + 1
                last == db'.events[Len(db'.events)]
            IN  /\ db'.sessions[i].end_time # db.sessions[i].end_time
                    => /\ gained
                       /\ last.session_id = sid
                       /\ last.event_type \in StopEvents
                /\ ( /\ gained
                     /\ last.session_id = sid
                     /\ last.event_type \in StopEvents )
                    => db'.sessions[i].end_time # NULL]_vars

\* a Stop or SubagentStop has committed its close of an open session and
\* its event together
C24_Witness ==
    \E p \in Procs :
        /\ pc[p] = "backup" /\ hook_type[p] \in StopKinds
        /\ Len(effects[p].events) = 1
        /\ \E i \in SessionRows(db, stdin[p].session_id) :
                db.sessions[i].end_time # NULL
        /\ C24_HasStopEvent(db, stdin[p].session_id)

====
